---- MODULE Spec2Model ----
(***************************************************************************)
(* COBRA_COMMANDER: an OSC control surface (cobra_commander.py) feeding a  *)
(* control queue, and the Venus fixture (COBRA_COMMANDER/venus.py) whose   *)
(* state is rendered into a DMX universe.                                  *)
(*                                                                         *)
(* Numbers.  A float x of the program is the integer x * Scale here, so    *)
(* 0.5 is Scale \div 2 and 1.0 is Scale.  DMX slot values are plain        *)
(* integers.                                                               *)
(***************************************************************************)
EXTENDS Integers, Sequences, FiniteSets, TLC

VARIABLES
    fn_name,        \* pure-function harness: the function last called
    fn_arg,         \* its argument (a scaled float)
    fn_res,         \* its result
    venus,          \* the Venus objects, by fixture number
    dmx_univ,       \* the DMX universe buffer, 0-based
    last_op,        \* the last operation applied to a fixture
    nevents,        \* number of control actions applied so far
    dmx_addrs,      \* the DMX address each fixture was constructed with
    import_state,   \* how far the import of venus.py has come
    ids,            \* the module-level bindings of the control identifiers
    control_groups, \* OSCController.control_groups: group -> name -> callback
    control_queue,  \* the control queue, head first
    history,        \* every entry ever put on the control queue, in order
    last_msg,       \* the OSC message handled last
    outcome,        \* what handling it did
    nmsgs,          \* number of OSC messages handled so far
    command_queue,  \* the command queue, head first
    loop_state,     \* the render loop: Starting, Running, Draining, Stopped
    loop_pc,        \* the step of its tick the loop is at
    tx_count,       \* transmissions of the output buffer so far
    tx_at_put,      \* tx_count when the first shutdown command was put, else -1
    tx_at_seen,     \* tx_count when the loop took a shutdown command, else -1
    extra_quits,    \* shutdown commands put by others than the front end
    fe_pc,          \* the front end: loop, finally, close, join, done
    server_open     \* whether the OSC server is still serving

osc_vars == <<control_groups, control_queue, history, last_msg, outcome, nmsgs>>
loop_vars == <<command_queue, loop_state, loop_pc, tx_count, tx_at_put,
               tx_at_seen, extra_quits>>
fe_vars == <<fe_pc, server_open>>
fn_vars == <<fn_name, fn_arg, fn_res>>
venus_vars == <<venus, dmx_univ, last_op, nevents, dmx_addrs, import_state, ids>>
vars == <<fn_vars, venus_vars, osc_vars, loop_vars, fe_vars>>

----------------------------------------------------------------------------
(* Bounds *)

\* 1.0 of the program is Scale here
Scale == 8
\* largest magnitude of a pure-function input, in units of 1/Scale
MaxInput == 24
\* number of slots of the universe buffer
UnivSize == 17
\* number of control actions applied in one behaviour
MaxEvents == 2
\* number of OSC messages handled in one behaviour
MaxMsgs == 3
\* ticks the render loop starts without a shutdown command
MaxTicks == 2
\* shutdown commands put by others than the front end
MaxExtraQuit == 1

\* slots one Venus occupies: the length of the tuple render writes
ChannelCount == 8

----------------------------------------------------------------------------
(* Arithmetic of the float operations *)

Abs(x) == IF x < 0 THEN -x ELSE x

Clamp(x, lo, hi) == IF x < lo THEN lo ELSE IF x > hi THEN hi ELSE x

\* round(num / den), halves upward, den > 0
RoundHalfUp(num, den) == (2 * num + den) \div (2 * den)

\* utils.unit_float_to_range(start, end, value): the scaled value of a unit
\* float, rounded and held inside [start, end]
unit_float_to_range(start, end, value) ==
    Clamp(start + RoundHalfUp(value * (end - start), Scale), start, end)

----------------------------------------------------------------------------
(* venus.py: conversions and the Venus object *)

\* a faulty variant: the signed value is passed on the negative branch
bipolar_to_dir_and_val_noabs(bipolar_val) ==
    IF bipolar_val < 0
        THEN <<0, unit_float_to_range(0, 255, bipolar_val)>>
        ELSE <<255, unit_float_to_range(0, 255, bipolar_val)>>

\* a faulty variant: zero takes the negative branch
bipolar_to_dir_and_val_le(bipolar_val) ==
    IF bipolar_val <= 0
        THEN <<0, unit_float_to_range(0, 255, Abs(bipolar_val))>>
        ELSE <<255, unit_float_to_range(0, 255, bipolar_val)>>

bipolar_to_dir_and_val(bipolar_val) ==
    IF bipolar_val < 0
        THEN <<0, unit_float_to_range(0, 255, Abs(bipolar_val))>>
        ELSE <<255, unit_float_to_range(0, 255, bipolar_val)>>

\* a faulty variant: the 1-based address is kept
Venus_onebased(dmx_addr) ==
    [dmx_addr |-> dmx_addr,
     base_rotation |-> 0,
     cradle_motion |-> 0,
     head_rotation |-> 0,
     color_rotation |-> 0,
     lamp_on |-> FALSE]

\* Venus.__init__
Venus(dmx_addr) ==
    [dmx_addr |-> dmx_addr - 1,
     base_rotation |-> 0,
     cradle_motion |-> 0,
     head_rotation |-> 0,
     color_rotation |-> 0,
     lamp_on |-> FALSE]

\* a faulty variant: the motion goes to the buffer as int(255 * value)
RenderVals_rawcradle(self) ==
    LET base == bipolar_to_dir_and_val(self.base_rotation)
        cradle_val == (255 * self.cradle_motion) \div Scale
        head == bipolar_to_dir_and_val(self.head_rotation)
        col == bipolar_to_dir_and_val(self.color_rotation)
        lamp_val == IF self.lamp_on THEN 255 ELSE 0
    IN  <<base[1], base[2], cradle_val, head[1], head[2], col[1], col[2], lamp_val>>

\* a faulty variant: the head and the color bytes change places
RenderVals_swapped(self) ==
    LET base == bipolar_to_dir_and_val(self.base_rotation)
        cradle_val == unit_float_to_range(0, 255, self.cradle_motion)
        head == bipolar_to_dir_and_val(self.head_rotation)
        col == bipolar_to_dir_and_val(self.color_rotation)
        lamp_val == IF self.lamp_on THEN 255 ELSE 0
    IN  <<base[1], base[2], cradle_val, col[1], col[2], head[1], head[2], lamp_val>>

\* the tuple `vals` of Venus.render
RenderVals(self) ==
    LET base == bipolar_to_dir_and_val(self.base_rotation)
        cradle_val == unit_float_to_range(0, 255, self.cradle_motion)
        head == bipolar_to_dir_and_val(self.head_rotation)
        col == bipolar_to_dir_and_val(self.color_rotation)
        lamp_val == IF self.lamp_on THEN 255 ELSE 0
    IN  <<base[1], base[2], cradle_val, head[1], head[2], col[1], col[2], lamp_val>>

\* a faulty variant: the value is added to what the slot holds
SetItem_add(univ, i, val) ==
    LET n == Cardinality(DOMAIN univ)
        j == IF i < 0 THEN i + n ELSE i
    IN  IF i >= n \/ i < -n
            THEN [univ |-> univ, exc |-> "IndexError"]
            ELSE [univ |-> [univ EXCEPT ![j] = (univ[j] + val) % 256],
                  exc |-> "none"]

\* dmx_univ[i] = val on a Python sequence of len(univ) items: a negative index
\* counts from the end, an index outside the sequence raises IndexError
SetItem(univ, i, val) ==
    LET n == Cardinality(DOMAIN univ)
    IN  IF i >= n \/ i < -n
            THEN [univ |-> univ, exc |-> "IndexError"]
            ELSE [univ |-> [univ EXCEPT ![IF i < 0 THEN i + n ELSE i] = val],
                  exc |-> "none"]

\* a faulty variant: the last value is left unwritten
RECURSIVE RenderLoop_short(_, _, _, _)
RenderLoop_short(univ, dmx_addr, vals, offset) ==
    IF offset >= Len(vals) - 1
        THEN [univ |-> univ, exc |-> "none"]
        ELSE LET w == SetItem(univ, dmx_addr + offset, vals[offset + 1])
             IN  IF w.exc # "none"
                     THEN w
                     ELSE RenderLoop_short(w.univ, dmx_addr, vals, offset + 1)

\* a faulty variant: every value lands one slot early
RECURSIVE RenderLoop_back(_, _, _, _)
RenderLoop_back(univ, dmx_addr, vals, offset) ==
    IF offset >= Len(vals)
        THEN [univ |-> univ, exc |-> "none"]
        ELSE LET w == SetItem(univ, dmx_addr + offset - 1, vals[offset + 1])
             IN  IF w.exc # "none"
                     THEN w
                     ELSE RenderLoop_back(w.univ, dmx_addr, vals, offset + 1)

\* for offset, val in enumerate(vals): dmx_univ[dmx_addr+offset] = val
RECURSIVE RenderLoop(_, _, _, _)
RenderLoop(univ, dmx_addr, vals, offset) ==
    IF offset >= Len(vals)
        THEN [univ |-> univ, exc |-> "none"]
        ELSE LET w == SetItem(univ, dmx_addr + offset, vals[offset + 1])
             IN  IF w.exc # "none"
                     THEN w
                     ELSE RenderLoop(w.univ, dmx_addr, vals, offset + 1)

\* Venus.render: the universe afterwards, and the exception raised if any
render(self, univ) == RenderLoop(univ, self.dmx_addr, RenderVals(self), 0)

\* control actions
base_rotation(v, speed) == [v EXCEPT !.base_rotation = speed]

cradle_motion(v, speed) == [v EXCEPT !.cradle_motion = speed]

head_rotation(v, speed) == [v EXCEPT !.head_rotation = speed]

color_rotation(v, speed) == [v EXCEPT !.color_rotation = speed]

lamp_on(v, state) == [v EXCEPT !.lamp_on = (state # 0)]

\* the targets of the identifier assignment, in order
ControlNames ==
    <<"BaseRotation", "CradleMotion", "HeadRotation", "ColorRotation", "LampOn">>

ControlIds == {ControlNames[i] : i \in DOMAIN ControlNames}

\* control_map[control](venus, value), the key written as the identifier's name
control_map(control, v, value) ==
    CASE control = "BaseRotation" -> base_rotation(v, value)
      [] control = "CradleMotion" -> cradle_motion(v, value)
      [] control = "HeadRotation" -> head_rotation(v, value)
      [] control = "ColorRotation" -> color_rotation(v, value)
      [] control = "LampOn" -> lamp_on(v, value)

\* Python's range(n)
range(n) == [i \in 1..n |-> i - 1]

\* (t1, ..., tk) = values: binds every target, or raises ValueError and binds
\* none when the lengths differ
Unpack(targets, values) ==
    IF Len(targets) # Len(values)
        THEN [exc |-> "ValueError", bound |-> [n \in {} |-> 0]]
        ELSE [exc |-> "none",
              bound |-> [n \in {targets[i] : i \in DOMAIN targets} |->
                            values[CHOOSE i \in DOMAIN targets : targets[i] = n]]]

----------------------------------------------------------------------------
(* The pure functions, called on drawn inputs *)

FnInputs == (-MaxInput)..MaxInput

CallBipolarToDirAndVal ==
    /\ fn_name = "none"
    /\ fn_name' = "bipolar_to_dir_and_val"
    /\ fn_res' = bipolar_to_dir_and_val(fn_arg)
    /\ UNCHANGED <<fn_arg, venus_vars, osc_vars, loop_vars, fe_vars>>

CallUnitFloatToRange ==
    /\ fn_name = "none"
    /\ fn_name' = "unit_float_to_range"
    /\ fn_res' = <<unit_float_to_range(0, 255, fn_arg)>>
    /\ UNCHANGED <<fn_arg, venus_vars, osc_vars, loop_vars, fe_vars>>

----------------------------------------------------------------------------
(* Fixtures in a universe: control actions and rendering *)

Fixtures == {1, 2}

Slots == 0..(UnivSize - 1)

\* DMX addresses at which a fixture's slots all lie in the universe
Addrs == 1..(UnivSize - ChannelCount + 1)

\* what the buffer may hold before a fixture is first rendered
UnivPatterns ==
    {[i \in Slots |-> 7], [i \in Slots |-> (15 * i + 1) % 256]}

\* speeds a control action is called with: -0.5 and 2.0
EventVals == {-(Scale \div 2), 2 * Scale}

\* lamp states a control action is called with: 0.0, 1.0 and -0.5
LampVals == {0, Scale, -(Scale \div 2)}

\* the values a control's action is called with
ValuesOf(control) ==
    CASE control = "LampOn" -> LampVals
      [] control = "HeadRotation" -> {-(Scale \div 2)}
      [] control = "ColorRotation" -> {2 * Scale}
      [] OTHER -> EventVals

\* `again` marks a render that follows a render of the same fixture directly
NoOp == [op |-> "none", fixture |-> 0, control |-> "", value |-> 0, exc |-> "none",
         again |-> FALSE]

\* one entry of the control queue applied to a fixture through control_map
ApplyControl(f, control, value) ==
    /\ nevents < MaxEvents
    /\ nevents' = nevents + 1
    /\ venus' = [venus EXCEPT ![f] = control_map(control, venus[f], value)]
    /\ last_op' = [op |-> "control", fixture |-> f, control |-> control,
                   value |-> value, exc |-> "none", again |-> FALSE]
    /\ UNCHANGED <<dmx_univ, dmx_addrs, import_state, ids, fn_vars, osc_vars, loop_vars, fe_vars>>

\* venus.render(dmx_univ)
Render(f) ==
    /\ LET r == render(venus[f], dmx_univ)
       IN  /\ dmx_univ' = r.univ
           /\ last_op' = [op |-> "render", fixture |-> f, control |-> "",
                          value |-> 0, exc |-> r.exc,
                          again |-> (last_op.op = "render" /\ last_op.fixture = f)]
    /\ UNCHANGED <<venus, nevents, dmx_addrs, import_state, ids, fn_vars, osc_vars, loop_vars, fe_vars>>

\* the module-level statement (BaseRotation, ..., LampOn) = range(4)
ImportVenus ==
    /\ import_state = "start"
    /\ LET r == Unpack(ControlNames, range(4))
       IN  /\ import_state' = (IF r.exc = "none" THEN "done" ELSE r.exc)
           /\ ids' = r.bound
    /\ UNCHANGED <<venus, dmx_univ, last_op, nevents, dmx_addrs, fn_vars, osc_vars, loop_vars, fe_vars>>

----------------------------------------------------------------------------
(* cobra_commander.py: the OSC controller *)

\* A float of the program as a value on the control queue: num / den.  None
\* and Python ints are values of their own type.
Float(n) == [t |-> "float", num |-> n, den |-> Scale]

PyInt(n) == [t |-> "int", num |-> n, den |-> 1]

None == [t |-> "None", num |-> 0, den |-> 1]

\* value == 1.0
EqualsOne(value) == value.t # "None" /\ value.num = value.den

\* the decimal numerals an address element may be
Numerals == <<"0", "1", "2", "3", "4", "5", "6", "7", "8", "9", "10", "11">>

IsNumeral(s) == \E i \in DOMAIN Numerals : Numerals[i] = s

\* int(s) for a numeral s
int(s) == (CHOOSE i \in DOMAIN Numerals : Numerals[i] = s) - 1

\* '{}'.format(n)
str(n) == Numerals[n + 1]

\* ignore_all_but_1
ignore_all_but_1(value) == IF EqualsOne(value) THEN value ELSE None

\* quadratic_fader
quadratic_fader(value) ==
    [t |-> "float", num |-> value.num * value.num, den |-> value.den * value.den]

\* quartic_fader
quartic_fader(value) == quadratic_fader(quadratic_fader(value))

\* utils.bipolar_fader_with_detent: some bipolar value, here -0.5 or 1.0
bipolar_fader_with_detent(value) == {Float(-(Scale \div 2)), Float(Scale)}

\* utils.unipolar_fader_with_detent: some unipolar value, here 0.0 or 1.0
unipolar_fader_with_detent(value) == {Float(0), Float(Scale)}

\* the values a preprocessor may return for a payload value
Preprocess(preprocessor, value) ==
    CASE preprocessor = "None" -> {value}
      [] preprocessor = "quartic_fader" -> {quartic_fader(value)}
      [] preprocessor = "ignore_all_but_1" -> {ignore_all_but_1(value)}
      [] preprocessor = "bipolar_fader_with_detent" -> bipolar_fader_with_detent(value)
      [] preprocessor = "unipolar_fader_with_detent" -> unipolar_fader_with_detent(value)

\* OSCController.create_control_group
create_control_group(groups, name) ==
    IF name \in DOMAIN groups THEN groups ELSE (name :> <<>>) @@ groups

\* OSCController.create_simple_control: control_groups[group][name] = callback
create_simple_control(groups, group, name, comet_control, preprocessor) ==
    [groups EXCEPT ![group] =
        (name :> [kind |-> "simple", comet_control |-> comet_control,
                  preprocessor |-> preprocessor, shape |-> <<0, 0>>]) @@ @]

\* OSCController.create_radio_button_control
create_radio_button_control(groups, group, name, shape, comet_control) ==
    [groups EXCEPT ![group] =
        (name :> [kind |-> "radio", comet_control |-> comet_control,
                  preprocessor |-> "None", shape |-> shape]) @@ @]

\* setup_controls of cobra_commander.py
setup_controls(cont) ==
    LET g1 == create_control_group(cont, "Controls")
        g2 == create_control_group(g1, "Music")
        g3 == create_control_group(g2, "Debug")
        c1 == create_simple_control(g3, "Controls", "Shutter", "Shutter", "None")
        c2 == create_simple_control(c1, "Controls", "Strobe", "Strobe", "None")
        c3 == create_simple_control(c2, "Controls", "StrobeRate", "StrobeRate", "quartic_fader")
        c4 == create_simple_control(c3, "Controls", "Mspeed", "Mspeed", "None")
        c5 == create_simple_control(c4, "Controls", "AutoStep", "AutoStep", "None")
        c6 == create_simple_control(c5, "Controls", "AutoStepRate", "AutoStepRate", "None")
        c7 == create_simple_control(c6, "Controls", "StepBackwards", "StepBackwards", "ignore_all_but_1")
        c8 == create_simple_control(c7, "Controls", "StepForwards", "StepForwards", "ignore_all_but_1")
        c9 == create_radio_button_control(c8, "Controls", "SelectMacro", <<10, 1>>, "SelectMacro")
        c10 == create_simple_control(c9, "Music", "ShutterSoundActive", "ShutterSoundActive", "None")
        c11 == create_simple_control(c10, "Music", "TrigSoundActive", "TrigSoundActive", "None")
    IN  create_simple_control(c11, "Debug", "Reset", "Reset", "None")

\* setup_controls of venus.py
venus_setup_controls(cont) ==
    LET g1 == create_control_group(cont, "Controls")
        g2 == create_control_group(g1, "Lamp")
        c1 == create_simple_control(g2, "Controls", "BaseRotation", "BaseRotation", "bipolar_fader_with_detent")
        c2 == create_simple_control(c1, "Controls", "CradleMotion", "CradleMotion", "unipolar_fader_with_detent")
        c3 == create_simple_control(c2, "Controls", "HeadRotation", "HeadRotation", "bipolar_fader_with_detent")
        c4 == create_simple_control(c3, "Controls", "ColorRotation", "ColorRotation", "bipolar_fader_with_detent")
    IN  create_simple_control(c4, "Lamp", "LampOn", "LampOn", "None")

\* logging.log(level, msg, *args): a call with fewer than two arguments raises
logging_log(args) == IF Len(args) < 2 THEN "TypeError" ELSE "none"

\* what one call of handle_osc_message did: the exception it raised, whether
\* it looked a group up and called a callback, the feedback it sent and the
\* (control, value) pairs it gave to send_comet_control, and the order in
\* which these sends and puts were made
Did(exc, looked_up, called, sends, puts, order) ==
    [exc |-> exc, looked_up |-> looked_up, called |-> called,
     sends |-> sends, puts |-> puts, order |-> order]

\* control_queue = Queue(): no maxsize is given, and a maxsize of 0 or less
\* makes the queue unbounded
queue_maxsize == 1 - 1

\* a faulty variant: a queue that holds one entry
Full_one(queue) == Len(queue) >= 1

\* Queue.put blocks while the queue holds maxsize entries, if maxsize > 0
Full(queue) == queue_maxsize > 0 /\ Len(queue) >= queue_maxsize

\* a faulty variant: the entry is put at the head of the queue
send_comet_control_front(queue, control, value) ==
    <<[control |-> control, value |-> value]>> \o queue

\* send_comet_control: control_queue.put((control, value))
send_comet_control(queue, control, value) ==
    Append(queue, [control |-> control, value |-> value])

\* the feedback of a radio button callback: for x_but, for y_but, on or off
RadioFeedback(group_name, control_name, shape, x, y) ==
    [k \in 1..(shape[1] * shape[2]) |->
        LET x_but == (k - 1) \div shape[2]
            y_but == (k - 1) % shape[2]
        IN  [addr |-> <<"", group_name, control_name, str(x_but + 1), str(y_but + 1)>>,
             value |-> IF x_but + 1 = x /\ y_but + 1 = y THEN Float(Scale) ELSE Float(0)]]

\* a faulty variant: the radio button callback puts its entry before the loops
RadioOrder_putfirst(shape) ==
    <<"put">> \o [k \in 1..(shape[1] * shape[2]) |-> "send"]

\* the order of a radio button callback: the two loops over the buttons, then
\* send_comet_control
RadioOrder(shape) ==
    [k \in 1..(shape[1] * shape[2]) |-> "send"] \o <<"put">>

\* a faulty variant: a simple control drops a value its preprocessor made None
Callback_dropnone(cb, elements, value) ==
    IF cb.kind = "simple"
        THEN {IF processed = None
                  THEN Did("none", TRUE, TRUE, <<>>, <<>>, <<>>)
                  ELSE Did("none", TRUE, TRUE, <<>>,
                           <<[control |-> cb.comet_control, value |-> processed]>>,
                           <<"put">>) :
                processed \in Preprocess(cb.preprocessor, value)}
        ELSE IF Len(elements) < 5
            THEN {Did("IndexError", TRUE, TRUE, <<>>, <<>>, <<>>)}
            ELSE IF ~IsNumeral(elements[4]) \/ ~IsNumeral(elements[5])
                THEN {Did("ValueError", TRUE, TRUE, <<>>, <<>>, <<>>)}
                ELSE LET x == int(elements[4])
                         y == int(elements[5])
                     IN  {Did("none", TRUE, TRUE,
                              RadioFeedback(elements[2], elements[3], cb.shape, x, y),
                              <<[control |-> cb.comet_control, value |-> PyInt(x - 1)]>>,
                              RadioOrder(cb.shape))}

\* the callbacks built by create_simple_control and
\* create_radio_button_control, called with (addr, value): the set of things the
\* call may do
Callback(cb, elements, value) ==
    IF cb.kind = "simple"
        THEN {Did("none", TRUE, TRUE, <<>>,
                  <<[control |-> cb.comet_control, value |-> processed]>>,
                  <<"put">>) :
                processed \in Preprocess(cb.preprocessor, value)}
        ELSE IF Len(elements) < 5
            THEN {Did("IndexError", TRUE, TRUE, <<>>, <<>>, <<>>)}
            ELSE IF ~IsNumeral(elements[4]) \/ ~IsNumeral(elements[5])
                THEN {Did("ValueError", TRUE, TRUE, <<>>, <<>>, <<>>)}
                ELSE LET x == int(elements[4])
                         y == int(elements[5])
                     IN  {Did("none", TRUE, TRUE,
                              RadioFeedback(elements[2], elements[3], cb.shape, x, y),
                              <<[control |-> cb.comet_control, value |-> PyInt(x - 1)]>>,
                              RadioOrder(cb.shape))}

\* a faulty variant: an address of fewer than 3 elements is treated as an
\* unknown control group
handle_osc_message_short(groups, elements, payload) ==
    IF Len(elements) < 3
        THEN {Did(logging_log(<<"Unknown control group">>),
                  TRUE, FALSE, <<>>, <<>>, <<>>)}
        ELSE LET group_name == elements[2]
                 control_name == elements[3]
             IN  IF group_name \notin DOMAIN groups
                     THEN \* except KeyError: logging.log(message); return
                          {Did(logging_log(<<"Unknown control group">>),
                               TRUE, FALSE, <<>>, <<>>, <<>>)}
                     ELSE IF control_name \notin DOMAIN groups[group_name]
                         THEN \* except KeyError: logging.log(message), then the
                              \* call of the unbound local `control`
                              LET logged == logging_log(<<"Unknown control">>)
                              IN  {Did(IF logged # "none" THEN logged
                                       ELSE "UnboundLocalError",
                                       TRUE, FALSE, <<>>, <<>>, <<>>)}
                         ELSE IF Len(payload) = 0
                             THEN {Did("IndexError", TRUE, FALSE, <<>>, <<>>, <<>>)}
                             ELSE Callback(groups[group_name][control_name],
                                           elements, payload[1])

\* handle_osc_message(addr, type_tags, payload, source_addr), addr given as
\* addr.split('/'): the set of things the call may do
handle_osc_message(groups, elements, payload) ==
    IF Len(elements) < 3
        THEN {Did("none", FALSE, FALSE, <<>>, <<>>, <<>>)}
        ELSE LET group_name == elements[2]
                 control_name == elements[3]
             IN  IF group_name \notin DOMAIN groups
                     THEN \* except KeyError: logging.log(message); return
                          {Did(logging_log(<<"Unknown control group">>),
                               TRUE, FALSE, <<>>, <<>>, <<>>)}
                     ELSE IF control_name \notin DOMAIN groups[group_name]
                         THEN \* except KeyError: logging.log(message), then the
                              \* call of the unbound local `control`
                              LET logged == logging_log(<<"Unknown control">>)
                              IN  {Did(IF logged # "none" THEN logged
                                       ELSE "UnboundLocalError",
                                       TRUE, FALSE, <<>>, <<>>, <<>>)}
                         ELSE IF Len(payload) = 0
                             THEN {Did("IndexError", TRUE, FALSE, <<>>, <<>>, <<>>)}
                             ELSE Callback(groups[group_name][control_name],
                                           elements, payload[1])

NoMsg == [addr |-> <<>>, payload |-> <<>>]

NoOutcome == Did("none", FALSE, FALSE, <<>>, <<>>, <<>>)

\* payload values the control surface sends: 0.0, 0.5 and 1.0
PayloadVals == {0, Scale \div 2, Scale}

\* the arguments of a message: one value, or none
Payloads == {<<>>} \cup {<<Float(v)>> : v \in PayloadVals}

\* addresses the control surface sends, split at '/'
Addresses ==
    {<<"", "Controls", "Shutter">>,
     <<"", "Controls", "StrobeRate">>,
     <<"", "Controls", "StepBackwards">>,
     <<"", "Controls", "SelectMacro", "3", "1">>,
     <<"", "Controls", "SelectMacro", "10", "1">>,
     <<"", "Controls", "BaseRotation">>,
     <<"", "Lamp", "LampOn">>,
     <<"", "Controls", "Nope">>,
     <<"", "Nope", "Shutter">>,
     <<"", "Controls">>}

\* the OSC server hands one message to handle_osc_message; an exception of the
\* handler ends that call only
HandleOsc(elements, payload) ==
    /\ server_open
    /\ nmsgs < MaxMsgs
    /\ nmsgs' = nmsgs + 1
    /\ last_msg' = [addr |-> elements, payload |-> payload]
    /\ \E did \in handle_osc_message(control_groups, elements, payload) :
          /\ did.puts # <<>> => ~Full(control_queue)
          /\ outcome' = did
          /\ control_queue' =
                IF did.puts = <<>> THEN control_queue
                ELSE send_comet_control(control_queue, did.puts[1].control,
                                        did.puts[1].value)
          /\ history' = history \o did.puts
    /\ UNCHANGED <<control_groups, fn_vars, venus_vars, loop_vars, fe_vars>>

NextOsc ==
    \E elements \in Addresses, payload \in Payloads : HandleOsc(elements, payload)

\* the controller after both setup_controls, nothing received yet
InitOsc ==
    /\ control_groups = venus_setup_controls(setup_controls(<<>>))
    /\ control_queue = <<>>
    /\ history = <<>>
    /\ last_msg = NoMsg
    /\ outcome = NoOutcome
    /\ nmsgs = 0
    /\ fn_name = "none"
    /\ fn_arg = 0
    /\ fn_res = <<>>
    /\ import_state = "start"
    /\ ids = [n \in {} |-> 0]
    /\ dmx_addrs = <<>>
    /\ venus = <<>>
    /\ dmx_univ = <<>>
    /\ last_op = NoOp
    /\ nevents = 0
    /\ command_queue = <<>>
    /\ loop_state = "Starting"
    /\ loop_pc = "poll"
    /\ tx_count = 0
    /\ tx_at_put = -1
    /\ tx_at_seen = -1
    /\ extra_quits = 0
    /\ fe_pc = "loop"
    /\ server_open = TRUE

SpecOsc == InitOsc /\ [][NextOsc]_vars

----------------------------------------------------------------------------
(* The front end of cobra_commander.py and the render loop it starts *)

\* the value a control action receives for a queue entry's value
ToScaled(value) == (value.num * Scale) \div value.den

\* the loop's state before a shutdown command is put
PutMark == IF tx_at_put = -1 THEN tx_count ELSE tx_at_put

\* a faulty variant: 'q' puts 'quit' itself before it leaves the loop
MainLoopInput_eager(user_input) ==
    /\ fe_pc = "loop"
    /\ fe_pc' = (IF user_input = "q" THEN "finally" ELSE "loop")
    /\ command_queue' = (IF user_input = "q" THEN Append(command_queue, "quit")
                         ELSE command_queue)
    /\ UNCHANGED <<server_open, loop_state, loop_pc, tx_count, tx_at_put,
                   tx_at_seen, extra_quits, fn_vars, venus_vars, osc_vars>>

\* the main loop reads a line; 'q' leaves the loop, any other input does not
MainLoopInput(user_input) ==
    /\ fe_pc = "loop"
    /\ fe_pc' = (IF user_input = "q" THEN "finally" ELSE "loop")
    /\ UNCHANGED <<server_open, fn_vars, venus_vars, osc_vars, loop_vars>>

\* an exception inside the main loop
MainLoopRaises ==
    /\ fe_pc = "loop"
    /\ fe_pc' = "finally"
    /\ UNCHANGED <<server_open, fn_vars, venus_vars, osc_vars, loop_vars>>

\* finally: command_queue.put('quit')
PutQuit ==
    /\ fe_pc = "finally"
    /\ fe_pc' = "close"
    /\ command_queue' = Append(command_queue, "quit")
    /\ tx_at_put' = PutMark
    /\ UNCHANGED <<server_open, loop_state, loop_pc, tx_count, tx_at_seen,
                   extra_quits, fn_vars, venus_vars, osc_vars>>

\* osc_controller.receiver.close()
CloseReceiver ==
    /\ fe_pc = "close"
    /\ fe_pc' = "join"
    /\ server_open' = FALSE
    /\ UNCHANGED <<fn_vars, venus_vars, osc_vars, loop_vars>>

\* st.join()
JoinServerThread ==
    /\ fe_pc = "join"
    /\ ~server_open
    /\ fe_pc' = "done"
    /\ UNCHANGED <<server_open, fn_vars, venus_vars, osc_vars, loop_vars>>

\* a further shutdown command reaches the Command Channel
ExtraShutdown ==
    /\ extra_quits < MaxExtraQuit
    /\ extra_quits' = extra_quits + 1
    /\ command_queue' = Append(command_queue, "quit")
    /\ tx_at_put' = PutMark
    /\ UNCHANGED <<loop_state, loop_pc, tx_count, tx_at_seen, fe_vars, fn_vars,
                   venus_vars, osc_vars>>

\* Starting -> Running, once the transport is open
LoopStart ==
    /\ loop_state = "Starting"
    /\ loop_state' = "Running"
    /\ UNCHANGED <<command_queue, loop_pc, tx_count, tx_at_put, tx_at_seen,
                   extra_quits, fe_vars, fn_vars, venus_vars, osc_vars>>

\* the loop state after polling the Command Channel
AfterPoll(state, command) == IF command = "quit" THEN "Draining" ELSE state

\* a faulty variant: the loop does not stop after the final transmission
AfterTransmit_on(state) == state

\* the loop state after a transmission
AfterTransmit(state) == IF state = "Draining" THEN "Stopped" ELSE state

\* the tick begins: the Command Channel is polled without blocking
PollCommand ==
    /\ loop_state = "Running"
    /\ loop_pc = "poll"
    /\ loop_pc' = "drain"
    /\ IF command_queue # <<>>
           THEN /\ command_queue' = Tail(command_queue)
                /\ loop_state' = AfterPoll(loop_state, Head(command_queue))
                /\ tx_at_seen' = (IF loop_state' = "Draining" THEN tx_count
                                  ELSE tx_at_seen)
           ELSE /\ tx_count < MaxTicks
                /\ UNCHANGED <<command_queue, loop_state, tx_at_seen>>
    /\ UNCHANGED <<tx_count, tx_at_put, extra_quits, fe_vars, fn_vars,
                   venus_vars, osc_vars>>

\* dispatch of one (control, value): a control of control_map acts on the
\* fixture, any other control is reported and dropped
Dispatch(fixtures, entry) ==
    IF entry.control \in ControlIds
        THEN [fixtures EXCEPT ![1] =
                 control_map(entry.control, @, ToScaled(entry.value))]
        ELSE fixtures

\* step (1) of the tick: one available entry of the control queue is applied
DrainOne ==
    /\ loop_pc = "drain"
    /\ control_queue # <<>>
    /\ control_queue' = Tail(control_queue)
    /\ venus' = Dispatch(venus, Head(control_queue))
    /\ UNCHANGED <<control_groups, history, last_msg, outcome, nmsgs, dmx_univ,
                   last_op, nevents, dmx_addrs, import_state, ids, fn_vars,
                   loop_vars, fe_vars>>

\* every fixture rendered into the buffer, in order
RECURSIVE RenderEach(_, _, _)
RenderEach(fixtures, univ, f) ==
    IF f \notin DOMAIN fixtures
        THEN univ
        ELSE RenderEach(fixtures, render(fixtures[f], univ).univ, f + 1)

\* step (2) of the tick, when the control queue has nothing more
RenderAll ==
    /\ loop_pc = "drain"
    /\ control_queue = <<>>
    /\ loop_pc' = "transmit"
    /\ dmx_univ' = RenderEach(venus, dmx_univ, 1)
    /\ UNCHANGED <<venus, last_op, nevents, dmx_addrs, import_state, ids,
                   command_queue, loop_state, tx_count, tx_at_put, tx_at_seen,
                   extra_quits, fe_vars, fn_vars, osc_vars>>

\* step (3) of the tick: the buffer goes to the transport; a Draining loop
\* stops after it
Transmit ==
    /\ loop_pc = "transmit"
    /\ tx_count' = tx_count + 1
    /\ loop_state' = AfterTransmit(loop_state)
    /\ loop_pc' = (IF loop_state' = "Stopped" THEN "end" ELSE "poll")
    /\ UNCHANGED <<command_queue, tx_at_put, tx_at_seen, extra_quits, fe_vars,
                   fn_vars, venus_vars, osc_vars>>

\* control messages of the Venus pages: a fader moved, the lamp button
\* released and pressed
VenusMsgs ==
    {[addr |-> <<"", "Controls", "BaseRotation">>, payload |-> <<Float(Scale)>>],
     [addr |-> <<"", "Lamp", "LampOn">>, payload |-> <<Float(0)>>],
     [addr |-> <<"", "Lamp", "LampOn">>, payload |-> <<Float(Scale)>>]}

\* the control surface, the control queue and the render loop
Next ==
    \/ \E msg \in VenusMsgs : HandleOsc(msg.addr, msg.payload)
    \/ LoopStart
    \/ PollCommand
    \/ DrainOne
    \/ RenderAll
    \/ Transmit

\* the front end, the Command Channel and the render loop
NextLoop ==
    \/ \E user_input \in {"q", "x"} : MainLoopInput(user_input)
    \/ MainLoopRaises
    \/ PutQuit
    \/ CloseReceiver
    \/ JoinServerThread
    \/ ExtraShutdown
    \/ LoopStart
    \/ PollCommand
    \/ RenderAll
    \/ Transmit

\* the controller set up, one Venus at rest, the front end in its main loop and
\* the render loop starting
Init ==
    /\ control_groups = venus_setup_controls(setup_controls(<<>>))
    /\ control_queue = <<>>
    /\ history = <<>>
    /\ last_msg = NoMsg
    /\ outcome = NoOutcome
    /\ nmsgs = 0
    /\ dmx_addrs \in [{1} -> {1, 2}]
    /\ venus = [f \in {1} |-> Venus(dmx_addrs[f])]
    /\ dmx_univ = [i \in Slots |-> 7]
    /\ last_op = NoOp
    /\ nevents = 0
    /\ import_state = "start"
    /\ ids = [n \in {} |-> 0]
    /\ fn_name = "none"
    /\ fn_arg = 0
    /\ fn_res = <<>>
    /\ command_queue = <<>>
    /\ loop_state = "Starting"
    /\ loop_pc = "poll"
    /\ tx_count = 0
    /\ tx_at_put = -1
    /\ tx_at_seen = -1
    /\ extra_quits = 0
    /\ fe_pc = "loop"
    /\ server_open = TRUE

Spec == Init /\ [][Next]_vars

SpecLoop == Init /\ [][NextLoop]_vars

----------------------------------------------------------------------------
(* Specifications *)

NextFn ==
    \/ CallBipolarToDirAndVal
    \/ CallUnitFloatToRange
    \/ ImportVenus

\* the module's functions on a drawn input, no fixture built
InitFn ==
    /\ fn_name = "none"
    /\ fn_arg \in FnInputs
    /\ fn_res = <<>>
    /\ import_state = "start"
    /\ ids = [n \in {} |-> 0]
    /\ dmx_addrs = <<>>
    /\ venus = <<>>
    /\ dmx_univ = <<>>
    /\ last_op = NoOp
    /\ nevents = 0
    /\ control_groups = <<>>
    /\ control_queue = <<>>
    /\ history = <<>>
    /\ last_msg = NoMsg
    /\ outcome = NoOutcome
    /\ nmsgs = 0
    /\ command_queue = <<>>
    /\ loop_state = "Starting"
    /\ loop_pc = "poll"
    /\ tx_count = 0
    /\ tx_at_put = -1
    /\ tx_at_seen = -1
    /\ extra_quits = 0
    /\ fe_pc = "loop"
    /\ server_open = TRUE

SpecFn == InitFn /\ [][NextFn]_vars

NextVenus ==
    \/ \E f \in Fixtures, control \in ControlIds :
            \E value \in ValuesOf(control) : ApplyControl(f, control, value)
    \/ \E f \in Fixtures : Render(f)

\* two fixtures built at adjacent addresses, every axis at rest, over a buffer
\* of either content
InitVenus ==
    /\ dmx_addrs \in {a \in [Fixtures -> Addrs] : a[2] = a[1] + ChannelCount}
    /\ venus = [f \in Fixtures |-> Venus(dmx_addrs[f])]
    /\ dmx_univ \in UnivPatterns
    /\ last_op = NoOp
    /\ nevents = 0
    /\ import_state = "start"
    /\ ids = [n \in {} |-> 0]
    /\ fn_name = "none"
    /\ fn_arg = 0
    /\ fn_res = <<>>
    /\ control_groups = <<>>
    /\ control_queue = <<>>
    /\ history = <<>>
    /\ last_msg = NoMsg
    /\ outcome = NoOutcome
    /\ nmsgs = 0
    /\ command_queue = <<>>
    /\ loop_state = "Starting"
    /\ loop_pc = "poll"
    /\ tx_count = 0
    /\ tx_at_put = -1
    /\ tx_at_seen = -1
    /\ extra_quits = 0
    /\ fe_pc = "loop"
    /\ server_open = TRUE

SpecVenus == InitVenus /\ [][NextVenus]_vars

----------------------------------------------------------------------------
(* Properties of venus.py *)

AxisNames == {"base_rotation", "cradle_motion", "head_rotation", "color_rotation", "lamp_on"}

\* the Venus field a control identifier stands for
AxisOf(control) ==
    CASE control = "BaseRotation" -> "base_rotation"
      [] control = "CradleMotion" -> "cradle_motion"
      [] control = "HeadRotation" -> "head_rotation"
      [] control = "ColorRotation" -> "color_rotation"
      [] control = "LampOn" -> "lamp_on"

\* the slots of fixture f: [a - 1, a - 1 + 8) for the address a it was built with
OwnRange(f) == (dmx_addrs[f] - 1)..(dmx_addrs[f] - 1 + ChannelCount - 1)

\* C3: once venus.py has been imported, the five control identifiers are bound
\* to pairwise distinct values, and control_map sends each identifier to its
\* own handler: applying identifier X changes field X of the Venus and no other.
C3_IdentifiersDefined ==
    import_state # "start" =>
        /\ import_state = "done"
        /\ ControlIds \subseteq DOMAIN ids
        /\ \A c, d \in ControlIds : c # d => ids[c] # ids[d]
        /\ \A c \in ControlIds :
             LET before == Venus(1)
                 after == control_map(c, before, Scale)
             IN  /\ after[AxisOf(c)] # before[AxisOf(c)]
                 /\ \A a \in AxisNames \ {AxisOf(c)} : after[a] = before[a]

\* C4: every stored axis value lies in its declared domain: the three rotations
\* in [-1, 1] and the cradle motion in [0, 1].
C4_AxesInDomain ==
    \A f \in DOMAIN venus :
        /\ venus[f].base_rotation \in (-Scale)..Scale
        /\ venus[f].head_rotation \in (-Scale)..Scale
        /\ venus[f].color_rotation \in (-Scale)..Scale
        /\ venus[f].cradle_motion \in 0..Scale

\* C5: a render of fixture f changes no slot outside f's own 8 slots, so it
\* changes no slot of the other fixture, whose range is disjoint from f's.
C5_RenderInOwnRange ==
    [][\A f \in Fixtures :
          (last_op'.op = "render" /\ last_op'.fixture = f) =>
              /\ \A i \in Slots \ OwnRange(f) : dmx_univ'[i] = dmx_univ[i]
              /\ \A g \in Fixtures \ {f} :
                     /\ OwnRange(g) \cap OwnRange(f) = {}
                     /\ \A i \in OwnRange(g) : dmx_univ'[i] = dmx_univ[i]]_vars

\* fixture 2, built at the address next to fixture 1's range, has just been
\* rendered over a buffer in which fixture 1's range was rendered before
C5_Witness ==
    /\ last_op.op = "render"
    /\ last_op.fixture = 2
    /\ dmx_addrs[2] = dmx_addrs[1] + ChannelCount
    /\ \A f \in Fixtures : \A i \in OwnRange(f) : dmx_univ[i] \in {0, 128, 255}
    /\ venus[1].lamp_on
    /\ venus[2].base_rotation = -(Scale \div 2)

\* C6: after a render of fixture f, whatever the buffer held before, each of
\* the 8 slots of f's range holds the encoding of f's current state, and the
\* render raised nothing.
C6_RenderWritesAll ==
    last_op.op = "render" =>
        LET f == last_op.fixture
        IN  /\ last_op.exc = "none"
            /\ \A k \in 0..(ChannelCount - 1) :
                   dmx_univ[dmx_addrs[f] - 1 + k] = RenderVals(venus[f])[k + 1]

\* a fixture rendered after both control actions of the run
C6_Witness ==
    /\ last_op.op = "render"
    /\ nevents = MaxEvents
    /\ venus[last_op.fixture].lamp_on
    /\ venus[last_op.fixture].cradle_motion = 2 * Scale
    /\ dmx_univ[dmx_addrs[last_op.fixture] - 1 + 7] = 255

\* C9: bipolar_to_dir_and_val(v) has direction 0 exactly when v < 0 and 255
\* otherwise, and magnitude round(|v| * 255) held inside [0, 255]; 0 gives
\* (255, 0) and -0.5 gives (0, 128).
C9_BipolarSplit ==
    fn_name = "bipolar_to_dir_and_val" =>
        LET dir == fn_res[1]
            mag == fn_res[2]
            x == Abs(fn_arg)
        IN  /\ dir \in {0, 255}
            /\ dir = 0 <=> fn_arg < 0
            /\ mag \in 0..255
            /\ mag > 0 => 2 * Scale * mag - Scale <= 2 * 255 * x
            /\ mag < 255 => 2 * 255 * x < 2 * Scale * mag + Scale
            /\ fn_arg = 0 => fn_res = <<255, 0>>
            /\ 2 * fn_arg = -Scale => fn_res = <<0, 128>>

\* the call bipolar_to_dir_and_val(-0.5)
C9_Witness ==
    /\ fn_name = "bipolar_to_dir_and_val"
    /\ 2 * fn_arg = -Scale
    /\ fn_res = <<0, 128>>

\* C10: every value a render leaves in the fixture's range is an integer of
\* 0..255, also when an axis of the fixture lies outside its domain.
C10_RenderedBytes ==
    last_op.op = "render" =>
        \A i \in OwnRange(last_op.fixture) : dmx_univ[i] \in 0..255

\* a render of a fixture whose base rotation is 2.0 and cradle motion -0.5
C10_Witness ==
    /\ last_op.op = "render"
    /\ venus[last_op.fixture].base_rotation = 2 * Scale
    /\ venus[last_op.fixture].cradle_motion = -(Scale \div 2)
    /\ dmx_univ[dmx_addrs[last_op.fixture] - 1 + 1] = 255
    /\ dmx_univ[dmx_addrs[last_op.fixture] - 1 + 2] = 0

----------------------------------------------------------------------------
(* Properties of the controller, the control queue and the render loop *)

\* the message handled last names a registered group
GroupKnown ==
    /\ Len(last_msg.addr) >= 3
    /\ last_msg.addr[2] \in DOMAIN control_groups

\* the message handled last names a registered control of a registered group
ControlKnown ==
    /\ GroupKnown
    /\ last_msg.addr[3] \in DOMAIN control_groups[last_msg.addr[2]]

\* C1: a message for a registered group and an unregistered control raises no
\* exception, puts nothing on the control queue and calls no callback, and a
\* message for a registered simple control is dispatched whatever came before it.
C1_UnknownControlIgnored ==
    /\ (GroupKnown /\ ~ControlKnown) =>
           /\ outcome.exc = "none"
           /\ outcome.puts = <<>>
           /\ ~outcome.called
    /\ (ControlKnown /\ Len(last_msg.addr) = 3 /\ last_msg.payload # <<>>) =>
           /\ outcome.exc = "none"
           /\ outcome.called
           /\ Len(outcome.puts) = 1

\* C2: a message for an unregistered group is dropped (nothing put on the
\* control queue, no callback called, no feedback sent) and the handler returns
\* normally.
C2_UnknownGroupDropped ==
    (Len(last_msg.addr) >= 3 /\ ~GroupKnown) =>
        /\ outcome.exc = "none"
        /\ outcome.puts = <<>>
        /\ outcome.sends = <<>>
        /\ ~outcome.called

\* the entries of a queue that target a control
EntriesFor(queue, control) ==
    SelectSeq(queue, LAMBDA e : e.control = control)

\* the value a Venus field holds once the last of these entries is applied
LastWins(entries, control) ==
    IF entries = <<>>
        THEN Venus(1)[AxisOf(control)]
        ELSE LET value == ToScaled(entries[Len(entries)].value)
             IN  IF control = "LampOn" THEN value # 0 ELSE value

\* C7: entries are applied in the order they were put: whenever no entry for
\* a control waits on the queue, the control's axis holds the value of the last
\* entry ever put for it (its rest value if there was none), whatever was put
\* for the other controls; the queue is what has been put and not yet applied.
C7_LastEventWins ==
    /\ \E n \in 0..Len(history) :
           control_queue = SubSeq(history, n + 1, Len(history))
    /\ \A control \in ControlIds :
           EntriesFor(control_queue, control) = <<>> =>
               \A f \in DOMAIN venus :
                   venus[f][AxisOf(control)] =
                       LastWins(EntriesFor(history, control), control)

\* (A, -0.5), (B, 1.0), (A, 1.0) were put in this order and all are applied
C7_Witness ==
    /\ Len(history) = 3
    /\ history[1] = [control |-> "BaseRotation", value |-> Float(-(Scale \div 2))]
    /\ history[2] = [control |-> "LampOn", value |-> Float(Scale)]
    /\ history[3] = [control |-> "BaseRotation", value |-> Float(Scale)]
    /\ control_queue = <<>>
    /\ venus[1].base_rotation = Scale
    /\ venus[1].lamp_on

\* C15: the listener is never held up by the consumer: while the server is
\* open every message can be handled to completion, whatever number of entries
\* the render loop has left on the control queue; and the entries wait on the
\* queue in the order in which the listener handled their messages (the queue
\* is the tail of the sequence of all entries put so far).
C15_ListenerNeverBlocks ==
    /\ (server_open /\ nmsgs < MaxMsgs) =>
           \A msg \in VenusMsgs : ENABLED HandleOsc(msg.addr, msg.payload)
    /\ \A i \in 1..Len(control_queue) :
           control_queue[i] = history[Len(history) - Len(control_queue) + i]

\* two entries wait undrained, in the order of their messages, while the loop
\* has run, and a further message can still be handled
C15_Witness ==
    /\ nmsgs = 2
    /\ Len(control_queue) = 2
    /\ control_queue = history
    /\ control_queue[1] = [control |-> "BaseRotation", value |-> Float(Scale)]
    /\ control_queue[2] = [control |-> "LampOn", value |-> Float(Scale)]
    /\ tx_count >= 1
    /\ \E msg \in VenusMsgs : ENABLED HandleOsc(msg.addr, msg.payload)

----------------------------------------------------------------------------
(* Further properties of venus.py *)

\* C11: a render leaves the five axis fields of every Venus as they were, and a
\* render that directly follows a render of the same fixture, no control action
\* between them, leaves every byte of the buffer as the first one wrote it.
C11_RenderIdempotent ==
    [][last_op'.op = "render" =>
          /\ venus' = venus
          /\ last_op'.again => dmx_univ' = dmx_univ]_vars

\* a fixture moved off its rest state and rendered twice in a row
C11_Witness ==
    /\ last_op.op = "render"
    /\ last_op.again
    /\ venus[last_op.fixture].lamp_on
    /\ venus[last_op.fixture].base_rotation = -(Scale \div 2)
    /\ dmx_univ[dmx_addrs[last_op.fixture] - 1 + 1] = 128

\* the 8 slots of fixture f hold the encoding of f's current state
Rendered(f) ==
    \A k \in 0..(ChannelCount - 1) :
        dmx_univ[dmx_addrs[f] - 1 + k] = RenderVals(venus[f])[k + 1]

\* C12: with two fixtures in one buffer, a control action applied to fixture 2
\* leaves fixture 1 as it was, a render of fixture 2 leaves every byte of
\* fixture 1's range as it was, and so does a render of fixture 1 whose range
\* already holds its encoding: while only fixture 2 receives control actions,
\* the bytes of fixture 1's range are the same after every tick.
C12_OtherFixtureUntouched ==
    [][/\ (last_op'.op = "control" /\ last_op'.fixture = 2) => venus'[1] = venus[1]
       /\ (last_op'.op = "render" /\ (last_op'.fixture = 2 \/ Rendered(1))) =>
              \A i \in OwnRange(1) : dmx_univ'[i] = dmx_univ[i]]_vars

\* fixtures at base 0 and base 8: both control actions of the run went to
\* fixture 2, whose lamp is on; both fixtures are rendered and bytes 0..7 are
\* those of fixture 1 at rest
C12_Witness ==
    /\ dmx_addrs = <<1, 9>>
    /\ nevents = MaxEvents
    /\ last_op.op = "render"
    /\ last_op.fixture = 2
    /\ venus[1] = Venus(1)
    /\ venus[2].lamp_on
    /\ venus[2].base_rotation # 0
    /\ Rendered(1)
    /\ Rendered(2)
    /\ [k \in 1..ChannelCount |-> dmx_univ[k - 1]] = <<255, 0, 0, 255, 0, 255, 0, 0>>
    /\ dmx_univ[15] = 255

\* the direction byte of a bipolar axis
DirByte(x) == IF x < 0 THEN 0 ELSE 255

\* the magnitude byte of a bipolar axis
MagByte(x) == unit_float_to_range(0, 255, Abs(x))

\* C13: a render lays its 8 bytes out as base direction, base magnitude,
\* cradle motion, head direction, head magnitude, color direction, color
\* magnitude, lamp; the lamp byte is 255 exactly when lamp_on is true and 0
\* otherwise; the lamp_on handler leaves lamp_on false exactly when its value
\* is 0.0.
C13_Layout ==
    /\ last_op.op = "render" =>
           LET v == venus[last_op.fixture]
               b == dmx_addrs[last_op.fixture] - 1
           IN  /\ dmx_univ[b] = DirByte(v.base_rotation)
               /\ dmx_univ[b + 1] = MagByte(v.base_rotation)
               /\ dmx_univ[b + 2] = unit_float_to_range(0, 255, v.cradle_motion)
               /\ dmx_univ[b + 3] = DirByte(v.head_rotation)
               /\ dmx_univ[b + 4] = MagByte(v.head_rotation)
               /\ dmx_univ[b + 5] = DirByte(v.color_rotation)
               /\ dmx_univ[b + 6] = MagByte(v.color_rotation)
               /\ dmx_univ[b + 7] = (IF v.lamp_on THEN 255 ELSE 0)
               /\ dmx_univ[b + 7] = 255 <=> v.lamp_on
    /\ (last_op.op = "control" /\ last_op.control = "LampOn") =>
           (venus[last_op.fixture].lamp_on <=> last_op.value # 0)

\* a render of a fixture whose head turns backwards at 0.5 and whose lamp a
\* handler has switched on
C13_Witness ==
    /\ last_op.op = "render"
    /\ venus[last_op.fixture].lamp_on
    /\ venus[last_op.fixture].head_rotation = -(Scale \div 2)
    /\ [k \in 1..ChannelCount |-> dmx_univ[dmx_addrs[last_op.fixture] - 1 + k - 1]]
           = <<255, 0, 0, 0, 128, 255, 0, 255>>

\* C14: a Venus no control action has reached has every axis at 0 and the lamp
\* off, and a render of it leaves (255, 0, 0, 255, 0, 255, 0, 0) in its range.
C14_RestState ==
    nevents = 0 =>
        /\ \A f \in DOMAIN venus :
               /\ venus[f].base_rotation = 0
               /\ venus[f].cradle_motion = 0
               /\ venus[f].head_rotation = 0
               /\ venus[f].color_rotation = 0
               /\ venus[f].lamp_on = FALSE
        /\ last_op.op = "render" =>
               [k \in 1..ChannelCount |->
                   dmx_univ[dmx_addrs[last_op.fixture] - 1 + k - 1]]
                   = <<255, 0, 0, 255, 0, 255, 0, 0>>

\* a new Venus rendered before any control action
C14_Witness ==
    /\ nevents = 0
    /\ last_op.op = "render"
    /\ venus[last_op.fixture] = Venus(dmx_addrs[last_op.fixture])
    /\ dmx_univ[dmx_addrs[last_op.fixture] - 1] = 255
    /\ dmx_univ[dmx_addrs[last_op.fixture] - 1 + 7] = 0

-----------------------------------------------------------------------------
(* Further properties of the OSC controller and the front end *)

\* the callback registered for the address of a message
CallbackOf(msg) == control_groups[msg.addr[2]][msg.addr[3]]

\* a message addressed to a registered control of the given kind
Targets(msg, kind) ==
    /\ Len(msg.addr) >= 3
    /\ msg.addr[2] \in DOMAIN control_groups
    /\ msg.addr[3] \in DOMAIN control_groups[msg.addr[2]]
    /\ CallbackOf(msg).kind = kind

C17_RadioFeedbackThenPut ==
    (Targets(last_msg, "radio") /\ Len(last_msg.addr) >= 5 /\ outcome.called) =>
        LET cb == CallbackOf(last_msg)
            W == cb.shape[1]
            H == cb.shape[2]
            sends == outcome.sends
            Button(x_but, y_but) ==
                <<"", last_msg.addr[2], last_msg.addr[3], str(x_but), str(y_but)>>
        IN  \A x \in 1..W, y \in 1..H :
                (last_msg.addr[4] = str(x) /\ last_msg.addr[5] = str(y)) =>
                    /\ outcome.exc = "none"
                    /\ Len(sends) = W * H
                    /\ \A x_but \in 1..W, y_but \in 1..H :
                           /\ Cardinality({i \in 1..Len(sends) :
                                  sends[i].addr = Button(x_but, y_but)}) = 1
                           /\ \A i \in 1..Len(sends) :
                                  sends[i].addr = Button(x_but, y_but) =>
                                      sends[i].value =
                                          (IF x_but = x /\ y_but = y
                                               THEN Float(Scale) ELSE Float(0))
                    /\ outcome.puts =
                           <<[control |-> cb.comet_control, value |-> PyInt(x - 1)]>>
                    /\ Len(outcome.order) = W * H + 1
                    /\ \A i \in 1..(W * H) : outcome.order[i] = "send"
                    /\ outcome.order[W * H + 1] = "put"
                    /\ control_queue # <<>>
                    /\ control_queue[Len(control_queue)] = outcome.puts[1]

\* /Controls/SelectMacro/3/1 was handled: ten buttons got feedback, the third
\* one 'on', and (SelectMacro, 2) is at the queue's tail
C17_Witness ==
    /\ last_msg.addr = <<"", "Controls", "SelectMacro", "3", "1">>
    /\ outcome.called
    /\ Len(outcome.sends) = 10
    /\ outcome.sends[3] =
           [addr |-> <<"", "Controls", "SelectMacro", "3", "1">>,
            value |-> Float(Scale)]
    /\ outcome.sends[10] =
           [addr |-> <<"", "Controls", "SelectMacro", "10", "1">>,
            value |-> Float(0)]
    /\ control_queue[Len(control_queue)] =
           [control |-> "SelectMacro", value |-> PyInt(2)]

\* C18: a message whose address has fewer than 3 elements is ignored: no
\* group is looked up, no callback is called, nothing is sent or put, no
\* exception is raised, and the control queue and the registered control groups
\* are as they were.
C18_ShortAddressIgnored ==
    [][(nmsgs' = nmsgs + 1 /\ Len(last_msg'.addr) < 3) =>
           /\ outcome'.exc = "none"
           /\ ~outcome'.looked_up
           /\ ~outcome'.called
           /\ outcome'.sends = <<>>
           /\ outcome'.puts = <<>>
           /\ control_queue' = control_queue
           /\ control_groups' = control_groups]_vars

\* a short address was handled after a message that put an entry
C18_Witness ==
    /\ last_msg.addr = <<"", "Controls">>
    /\ nmsgs = 2
    /\ Len(control_queue) = 1
    /\ outcome = NoOutcome
    /\ control_groups = venus_setup_controls(setup_controls(<<>>))

\* the 'quit' commands the front end has put: those on the command queue and
\* the one the render loop has taken, less those of other senders
FrontEndPuts ==
    Len(command_queue) + (IF tx_at_seen # -1 THEN 1 ELSE 0) - extra_quits

\* C19: however the main loop is left, the front end puts exactly one 'quit':
\* none while it is in the loop, one from the moment it leaves the finally
\* clause's first statement; that put is the step that moves on to closing the
\* OSC server, the server is closed only after it, and the listener thread is
\* joined only after the server is closed.
C19_OneQuitBeforeClose ==
    /\ [](FrontEndPuts = (IF fe_pc \in {"close", "join", "done"} THEN 1 ELSE 0))
    /\ [][/\ (fe_pc' # fe_pc /\ fe_pc = "loop") => fe_pc' = "finally"
          /\ (fe_pc' # fe_pc /\ fe_pc' = "close") =>
                 /\ fe_pc = "finally"
                 /\ server_open
                 /\ command_queue' = Append(command_queue, "quit")
          /\ (server_open /\ ~server_open') =>
                 /\ fe_pc = "close"
                 /\ FrontEndPuts = 1
          /\ (fe_pc' # fe_pc /\ fe_pc' = "done") =>
                 /\ fe_pc = "join"
                 /\ ~server_open
                 /\ FrontEndPuts = 1]_vars

\* the front end has shut down and its one 'quit' waits for the render loop
C19_Witness ==
    /\ fe_pc = "done"
    /\ ~server_open
    /\ extra_quits = 0
    /\ tx_at_seen = -1
    /\ command_queue = <<"quit">>
====
